---------------------------- MODULE Spec2Model ----------------------------
(***************************************************************************)
(* Model of website/generate_assets.py, the VLVT website asset generator.  *)
(*                                                                         *)
(* Four specifications share the module:                                   *)
(*   SpecRun      the script run: directory setup at import, the           *)
(*                __main__ block, generate_app_mockup and generate_icon;   *)
(*   SpecColor    hex_to_rgb / hex_to_rgba on color tokens;                *)
(*   SpecGradient create_gradient_vertical / create_diagonal_gradient;     *)
(*   SpecPaste    the mask composite (putalpha + Image.paste).             *)
(***************************************************************************)
EXTENDS Integers, Sequences, FiniteSets, TLC

VARIABLES
    pc,        \* position of the running script / function
    dirs,      \* directories existing in the file system (paths)
    creatable, \* whether the file system lets os.makedirs create directories
    files,     \* output files written so far (paths)
    out,       \* lines printed so far
    attempts,  \* assets whose generation has been started, in order
    raised,    \* the exception in flight or last raised, "none" if none
    handled,   \* TRUE once the except clause of __main__ has run
    idx,       \* position of the for loop over icons (1-based)
    token,     \* the color token given to hex_to_rgb / hex_to_rgba
    alpha,     \* the alpha given to hex_to_rgba
    result,    \* what the call returned or raised
    width,     \* arguments of the gradient function running
    height,
    color1,
    color2,
    base,      \* create_gradient_vertical: the image returned
    top,       \* create_gradient_vertical: the image of color2
    mask,      \* the 'L' image used as mask
    mask_data, \* create_gradient_vertical: the list given to putdata
    img,       \* create_diagonal_gradient: the image returned
    x,         \* loop variables of the gradient functions
    y,
    overlay,   \* the image pasted onto the canvas img
    origin,    \* where it is pasted
    before     \* the canvas as it was before the composite

runVars == <<dirs, creatable, files, out, attempts, raised, handled, idx>>

colorVars == <<token, alpha, result>>

gradVars ==
    <<width, height, color1, color2, base, top, mask, mask_data, img, x, y>>

pasteVars == <<overlay, origin, before>>

nonRunVars == <<colorVars, gradVars, pasteVars>>

nonColorVars == <<runVars, gradVars, pasteVars>>

nonGradVars == <<runVars, colorVars, pasteVars>>

vars == <<pc, runVars, colorVars, gradVars, pasteVars>>

----------------------------------------------------------------------------
(* The script run.                                                         *)

\* "assets/generated", as path components (lines 10, 348, 359)
OutDir == <<"assets", "generated">>

\* faulty variant of icons: two entries of the list exchanged
icons_swapped == <<"nopay", "price", "human", "lock", "bouncer">>

\* the list of icons built in __main__ (lines 418-424)
icons == <<"price", "nopay", "human", "lock", "bouncer">>

\* path written by generate_app_mockup (line 348)
MockupPath == OutDir \o <<"app_mockup.png">>

\* faulty variant of IconPath: the icon is saved next to, not in, the output directory
IconPath_parent(name) == <<"assets">> \o <<"icon_" \o name \o ".png">>

\* path written by generate_icon (line 359)
IconPath(name) == OutDir \o <<"icon_" \o name \o ".png">>

\* the directory part of a path
DirOf(path) == SubSeq(path, 1, Len(path) - 1)

\* exceptions an asset's drawing code can raise: the ValueError of int() and
\* of putalpha/paste, or a MemoryError of Image.new; the file system raises
\* OSError
DrawErrors == {"ValueError", "MemoryError"}

\* the variables of the color functions, unused by the run
ColorIdle == token = <<>> /\ alpha = 0 /\ result = <<>>

\* the variables of the gradient functions, unused elsewhere
GradIdle ==
    /\ width = 0
    /\ height = 0
    /\ color1 = <<>>
    /\ color2 = <<>>
    /\ base = <<>>
    /\ top = <<>>
    /\ mask = <<>>
    /\ mask_data = <<>>
    /\ img = <<>>
    /\ x = 0
    /\ y = 0

\* the variables of the composite, unused elsewhere
PasteIdle == overlay = <<>> /\ origin = <<0, 0>> /\ before = <<>>

RunInit ==
    /\ pc = "import"
    /\ dirs \in {{}, {<<"assets">>}, {<<"assets">>, OutDir}}
    /\ creatable \in BOOLEAN
    /\ files = {}
    /\ out = <<>>
    /\ attempts = <<>>
    /\ raised = "none"
    /\ handled = FALSE
    /\ idx = 0
    /\ ColorIdle
    /\ GradIdle
    /\ PasteIdle

\* line 10: os.makedirs("assets/generated", exist_ok=True) succeeds
MakeDirs ==
    /\ pc = "import"
    /\ OutDir \in dirs \/ creatable
    /\ dirs' = dirs \cup {<<"assets">>, OutDir}
    /\ pc' = "main"
    /\ UNCHANGED <<creatable, files, out, attempts, raised, handled, idx, nonRunVars>>

\* line 10: os.makedirs raises OSError; the statement is at module level,
\* outside the try of __main__, so the interpreter ends the process
MakeDirsFail ==
    /\ pc = "import"
    /\ OutDir \notin dirs /\ ~creatable
    /\ raised' = "OSError"
    /\ pc' = "crashed"
    /\ UNCHANGED <<dirs, creatable, files, out, attempts, handled, idx, nonRunVars>>

\* lines 412-413 (the rule of 40 dashes is written "----")
Header ==
    /\ pc = "main"
    /\ out' = out \o <<"Generating VLVT website assets...", "----">>
    /\ pc' = "mockup"
    /\ UNCHANGED <<dirs, creatable, files, attempts, raised, handled, idx, nonRunVars>>

\* lines 416, 65-346: generate_app_mockup composes the canvas
MockupCompose ==
    /\ pc = "mockup"
    /\ attempts' = Append(attempts, "app_mockup")
    /\ pc' = "mockup_save"
    /\ UNCHANGED <<dirs, creatable, files, out, raised, handled, idx, nonRunVars>>

\* lines 65-346 raise: nothing in generate_app_mockup catches
MockupComposeFail ==
    /\ pc = "mockup"
    /\ attempts' = Append(attempts, "app_mockup")
    /\ \E e \in DrawErrors : raised' = e
    /\ pc' = "except"
    /\ UNCHANGED <<dirs, creatable, files, out, handled, idx, nonRunVars>>

\* line 348: final_img.save(...)
MockupSave ==
    /\ pc = "mockup_save"
    /\ DirOf(MockupPath) \in dirs
    /\ files' = files \cup {MockupPath}
    /\ pc' = "mockup_print"
    /\ UNCHANGED <<dirs, creatable, out, attempts, raised, handled, idx, nonRunVars>>

\* line 348 raises OSError
MockupSaveFail ==
    /\ pc = "mockup_save"
    /\ raised' = "OSError"
    /\ pc' = "except"
    /\ UNCHANGED <<dirs, creatable, files, out, attempts, handled, idx, nonRunVars>>

\* line 349, then lines 418-426: the icon list is built and the loop entered
MockupPrint ==
    /\ pc = "mockup_print"
    /\ out' = Append(out, "Generated: app_mockup.png (realistic app design)")
    /\ idx' = 1
    /\ pc' = "icons"
    /\ UNCHANGED <<dirs, creatable, files, attempts, raised, handled, nonRunVars>>

\* lines 426-427, 355-358: generate_icon(name, draw_func) draws the icon
IconCompose ==
    /\ pc = "icons"
    /\ idx <= Len(icons)
    /\ attempts' = Append(attempts, "icon_" \o icons[idx])
    /\ pc' = "icon_save"
    /\ UNCHANGED <<dirs, creatable, files, out, raised, handled, idx, nonRunVars>>

\* lines 355-358 raise
IconComposeFail ==
    /\ pc = "icons"
    /\ idx <= Len(icons)
    /\ attempts' = Append(attempts, "icon_" \o icons[idx])
    /\ \E e \in DrawErrors : raised' = e
    /\ pc' = "except"
    /\ UNCHANGED <<dirs, creatable, files, out, handled, idx, nonRunVars>>

\* line 359: img.save(...)
IconSave ==
    /\ pc = "icon_save"
    /\ DirOf(IconPath(icons[idx])) \in dirs
    /\ files' = files \cup {IconPath(icons[idx])}
    /\ pc' = "icon_print"
    /\ UNCHANGED <<dirs, creatable, out, attempts, raised, handled, idx, nonRunVars>>

\* line 359 raises OSError
IconSaveFail ==
    /\ pc = "icon_save"
    /\ raised' = "OSError"
    /\ pc' = "except"
    /\ UNCHANGED <<dirs, creatable, files, out, attempts, handled, idx, nonRunVars>>

\* line 360, and the loop advances
IconPrint ==
    /\ pc = "icon_print"
    /\ out' = Append(out, "Generated: icon_" \o icons[idx] \o ".png")
    /\ idx' = idx + 1
    /\ pc' = "icons"
    /\ UNCHANGED <<dirs, creatable, files, attempts, raised, handled, nonRunVars>>

\* lines 429-430: the loop is exhausted
Summary ==
    /\ pc = "icons"
    /\ idx > Len(icons)
    /\ out' = out \o <<"----", "All assets generated successfully!">>
    /\ pc' = "done"
    /\ UNCHANGED <<dirs, creatable, files, attempts, raised, handled, idx, nonRunVars>>

\* faulty variant of Handler: the error is reported and the loop goes on with the
\* next icon, as if the try were inside the loop
Handler_resume ==
    /\ pc = "except"
    /\ out' = out \o <<"Error: " \o raised, "traceback">>
    /\ handled' = TRUE
    /\ idx' = idx + 1
    /\ pc' = "icons"
    /\ UNCHANGED <<dirs, creatable, files, attempts, raised, nonRunVars>>

\* lines 432-435: except Exception as e
Handler ==
    /\ pc = "except"
    /\ out' = out \o <<"Error: " \o raised, "traceback">>
    /\ handled' = TRUE
    /\ pc' = "done"
    /\ UNCHANGED <<dirs, creatable, files, attempts, raised, idx, nonRunVars>>

RunNext ==
    \/ MakeDirs
    \/ MakeDirsFail
    \/ Header
    \/ MockupCompose
    \/ MockupComposeFail
    \/ MockupSave
    \/ MockupSaveFail
    \/ MockupPrint
    \/ IconCompose
    \/ IconComposeFail
    \/ IconSave
    \/ IconSaveFail
    \/ IconPrint
    \/ Summary
    \/ Handler

SpecRun == RunInit /\ [][RunNext]_vars


----------------------------------------------------------------------------
(* Claims about the run.                                                   *)

IsPrefix(s, t) == Len(s) <= Len(t) /\ s = SubSeq(t, 1, Len(s))

\* the fixed order of the assets, their files and their status lines
Order ==
    <<"app_mockup", "icon_price", "icon_nopay", "icon_human", "icon_lock",
      "icon_bouncer">>

FileOf(asset) == <<"assets", "generated", asset \o ".png">>

StatusOf(asset) ==
    IF asset = "app_mockup"
    THEN "Generated: app_mockup.png (realistic app design)"
    ELSE "Generated: " \o asset \o ".png"

SuccessLine == "All assets generated successfully!"

IsStatus(line) == \E i \in 1..Len(Order) : line = StatusOf(Order[i])

StatusLines == SelectSeq(out, IsStatus)

Printed(line) == \E i \in 1..Len(out) : out[i] = line

\* C1: with no failure the assets are generated strictly one after another
\* in the order mockup, price, nopay, human, lock, bouncer, each exactly
\* once; an asset's status line is printed after its file is written and
\* before the next asset is started; the success summary is printed only
\* after all six assets, and a run that ends without failure has printed it.
C1_SequentialOrder ==
    LET nf == Cardinality(files)
        ns == Len(StatusLines)
    IN  /\ IsPrefix(attempts, Order)
        /\ nf <= Len(Order)
        /\ files = {FileOf(Order[i]) : i \in 1..nf}
        /\ ns <= nf
        /\ nf <= Len(attempts)
        /\ Len(attempts) <= ns + 1
        /\ StatusLines = [i \in 1..ns |-> StatusOf(Order[i])]
        /\ Printed(SuccessLine) => (nf = Len(Order) /\ ns = Len(Order))
        /\ (pc = "done" /\ raised = "none") =>
              /\ out[Len(out)] = SuccessLine
              /\ attempts = Order
              /\ nf = Len(Order)

C1_Witness ==
    /\ pc = "done"
    /\ raised = "none"
    /\ Printed(SuccessLine)
    /\ Cardinality(files) = 6

\* C2: an error raised by an asset's generation reaches the except clause of
\* the run loop, which reports it and ends the run; after the error no asset
\* is started or written (no later asset, no retry) and the success summary
\* is never printed.
C2_FailureEndsRun ==
    /\ [](  (raised # "none" /\ attempts # <<>>) =>
              /\ pc = "except" \/ (pc = "done" /\ handled)
              /\ ~Printed(SuccessLine)
              /\ IsPrefix(attempts, Order)
              /\ FileOf(attempts[Len(attempts)]) \notin files
              /\ handled => Printed("Error: " \o raised) )
    /\ [][ raised # "none" =>
              /\ attempts' = attempts
              /\ files' = files
              /\ raised' = raised
              /\ pc' = "done" ]_vars

C2_Witness ==
    /\ pc = "done"
    /\ handled
    /\ raised = "OSError"
    /\ attempts = <<"app_mockup", "icon_price", "icon_nopay">>
    /\ Cardinality(files) = 2

\* the directory part common to the stated and the amended form of C3: the
\* output directory exists from the end of the import on, and every output
\* file is written under it
DirectoryFirst ==
    /\ pc \notin {"import", "crashed"} => OutDir \in dirs
    /\ files # {} => OutDir \in dirs
    /\ \A f \in files : DirOf(f) = <<"assets", "generated">>
    /\ \A i \in 1..Len(attempts) :
          i <= Cardinality(files) => FileOf(Order[i]) \in files

\* C3 as stated: the directory exists before the first file is written,
\* every file is written under it, and a failure to create the directory
\* reaches the run loop's except clause like any other IOFailure.
C3_AsStated ==
    /\ DirectoryFirst
    /\ raised = "OSError" => (pc = "except" \/ handled)

\* C3 (amended): the directory exists before the first file is written and
\* every file is written under it; an IOFailure of a file write reaches the
\* run loop's except clause, while a failure to create the directory is
\* raised at import, before the run loop is entered: it is not caught by the
\* except clause, nothing is printed and no asset is started.
C3_DirectoryBeforeFiles ==
    /\ DirectoryFirst
    /\ (raised = "OSError" /\ attempts # <<>>) => (pc = "except" \/ handled)
    /\ (raised = "OSError" /\ attempts = <<>>) =>
          /\ pc = "crashed"
          /\ ~handled
          /\ out = <<>>
          /\ files = {}
    /\ pc = "crashed" => (raised = "OSError" /\ OutDir \notin dirs)

C3_Witness ==
    /\ pc = "done"
    /\ creatable
    /\ files = {FileOf(Order[i]) : i \in 1..6}
    /\ OutDir \in dirs

----------------------------------------------------------------------------
(* The color functions.                                                    *)

\* longest token body tried
MaxTokLen == 7

\* characters of the token bodies tried: a decimal digit, a lower-case and
\* an upper-case hexadecimal letter, and a letter that is no hexadecimal digit
BodyChars == {"0", "a", "F", "g"}

\* the variables of the run, unused by the color functions
RunIdle ==
    /\ dirs = {}
    /\ creatable = FALSE
    /\ files = {}
    /\ out = <<>>
    /\ attempts = <<>>
    /\ raised = "none"
    /\ handled = FALSE
    /\ idx = 0

HexChars == <<"0", "1", "2", "3", "4", "5", "6", "7", "8", "9",
              "a", "b", "c", "d", "e", "f">>

UpperHex == <<"0", "1", "2", "3", "4", "5", "6", "7", "8", "9",
              "A", "B", "C", "D", "E", "F">>

IsHexDigit(c) == \E i \in 1..16 : c = HexChars[i] \/ c = UpperHex[i]

\* the value int() gives a hexadecimal digit, either case
DigitValue(c) == (CHOOSE i \in 1..16 : c = HexChars[i] \/ c = UpperHex[i]) - 1

\* str.lstrip('#'): every leading '#' is removed (line 27)
RECURSIVE lstrip(_)
lstrip(s) == IF s # <<>> /\ Head(s) = "#" THEN lstrip(Tail(s)) ELSE s

\* s[i:j] for 0 <= i <= j: the slice is cut at the end of s (line 28)
Slice(s, i, j) ==
    LET hi == IF j < Len(s) THEN j ELSE Len(s)
    IN  IF i >= hi THEN <<>> ELSE SubSeq(s, i + 1, hi)

\* str.strip() as int() applies it before parsing
RECURSIVE StripSpace(_)
StripSpace(s) ==
    IF s = <<>> THEN s
    ELSE IF Head(s) = " " THEN StripSpace(Tail(s))
    ELSE IF s[Len(s)] = " " THEN StripSpace(SubSeq(s, 1, Len(s) - 1))
    ELSE s

RECURSIVE DigitsValue(_, _)
DigitsValue(s, acc) ==
    IF s = <<>> THEN acc ELSE DigitsValue(Tail(s), 16 * acc + DigitValue(Head(s)))

\* int(s, 16) on a slice of at most two characters (line 28): surrounding
\* white space and one sign are accepted, then at least one hexadecimal
\* digit and nothing else; anything else raises ValueError
ParseInt16(s) ==
    LET t == StripSpace(s)
        signed == t # <<>> /\ Head(t) \in {"+", "-"}
        d == IF signed THEN Tail(t) ELSE t
        sign == IF signed /\ Head(t) = "-" THEN -1 ELSE 1
    IN  IF d # <<>> /\ \A k \in 1..Len(d) : IsHexDigit(d[k])
        THEN [err |-> "none", val |-> sign * DigitsValue(d, 0)]
        ELSE [err |-> "ValueError", val |-> 0]

\* faulty variant of ChannelOffsets: the slices overlap
ChannelOffsets_overlap == <<0, 1, 2>>

\* the offsets "for i in (0, 2, 4)" (line 28)
ChannelOffsets == <<0, 2, 4>>

\* lines 26-28
hex_to_rgb(hex_color) ==
    LET h == lstrip(hex_color)
        parts == [k \in 1..3 |->
                    ParseInt16(Slice(h, ChannelOffsets[k], ChannelOffsets[k] + 2))]
    IN  IF \E k \in 1..3 : parts[k].err # "none"
        THEN [err |-> "ValueError", val |-> <<>>]
        ELSE [err |-> "none", val |-> [k \in 1..3 |-> parts[k].val]]

\* lines 30-32
hex_to_rgba(hex_color, a) ==
    LET rgb == hex_to_rgb(hex_color)
    IN  IF rgb.err # "none" THEN rgb
        ELSE [err |-> "none", val |-> Append(rgb.val, a)]

RECURSIVE SeqsOfLen(_, _)
SeqsOfLen(S, n) ==
    IF n = 0 THEN {<<>>}
    ELSE {Append(q, c) : q \in SeqsOfLen(S, n - 1), c \in S}

\* six-character bodies with one character replaced by a sign or a space,
\* which int() accepts around the digits
SignedBodies ==
    {[b EXCEPT ![i] = c] : b \in SeqsOfLen({"0", "F"}, 6), i \in 1..6,
                           c \in {"-", "+", " "}}

\* the tokens tried: with or without the marker, bodies of every length
Tokens ==
    {m \o b : m \in {<<>>, <<"#">>},
              b \in SignedBodies
                    \cup UNION {SeqsOfLen(BodyChars, n) : n \in 0..MaxTokLen}}

\* the alpha bytes tried (lines 137, 184, 218 pass 50, 77, 200; 255 is the
\* default of line 30)
Alphas == {50, 255}

ColorInit ==
    /\ pc = "call"
    /\ token \in Tokens
    /\ alpha = 255
    /\ result = <<>>
    /\ RunIdle
    /\ GradIdle
    /\ PasteIdle

\* a call hex_to_rgb(token)
CallRgb ==
    /\ pc = "call"
    /\ result' = hex_to_rgb(token)
    /\ pc' = "rgb"
    /\ UNCHANGED <<token, alpha, nonColorVars>>

\* a call hex_to_rgba(token, a)
CallRgba ==
    /\ pc = "call"
    /\ \E a \in Alphas :
          /\ alpha' = a
          /\ result' = hex_to_rgba(token, a)
    /\ pc' = "rgba"
    /\ UNCHANGED <<token, nonColorVars>>

ColorNext ==
    \/ CallRgb
    \/ CallRgba

SpecColor == ColorInit /\ [][ColorNext]_vars

----------------------------------------------------------------------------
(* Claims about the color functions.                                       *)

\* the token without its leading marker, if it has one
Body(t) == IF t # <<>> /\ Head(t) = "#" THEN Tail(t) ELSE t

\* exactly six hexadecimal digits after the optional marker
ValidToken(t) ==
    /\ Len(Body(t)) = 6
    /\ \A k \in 1..6 : IsHexDigit(Body(t)[k])

Lower(c) ==
    IF \E i \in 1..16 : c = UpperHex[i]
    THEN HexChars[CHOOSE i \in 1..16 : c = UpperHex[i]]
    ELSE c

\* a channel as two zero-padded lower-case hexadecimal digits
Hex2(v) == <<HexChars[(v \div 16) + 1], HexChars[(v % 16) + 1]>>

Returned == pc \in {"rgb", "rgba"}

\* C4: for a token of exactly six hexadecimal digits, with or without the
\* marker, hex_to_rgb returns three integers in 0..255 whose two-digit
\* hexadecimal encodings, concatenated, are the six digits of the token up
\* to case; hex_to_rgba returns that triple followed by the given alpha.
C4_RoundTrip ==
    (Returned /\ ValidToken(token)) =>
        /\ result.err = "none"
        /\ Len(result.val) = IF pc = "rgb" THEN 3 ELSE 4
        /\ \A k \in 1..3 : result.val[k] \in 0..255
        /\ Hex2(result.val[1]) \o Hex2(result.val[2]) \o Hex2(result.val[3])
             = [k \in 1..6 |-> Lower(Body(token)[k])]
        /\ pc = "rgba" => result.val[4] = alpha

C4_Witness ==
    /\ pc = "rgba"
    /\ token = <<"#", "a", "F", "0", "a", "F", "F">>
    /\ alpha = 50
    /\ result = [err |-> "none", val |-> <<175, 10, 255, 50>>]

\* C5 as stated: for every token whose text after the marker is not exactly
\* six hexadecimal digits, hex_to_rgb raises and returns no tuple.
C5_MalformedRejected ==
    (pc = "rgb" /\ ~ValidToken(token)) =>
        /\ result.err = "ValueError"
        /\ result.val = <<>>

----------------------------------------------------------------------------
(* Python float arithmetic (IEEE 754 binary64, round to nearest even), as  *)
(* the gradient functions use it.  A natural number is a little-endian     *)
(* sequence of limbs in base 2^15 without leading zero limbs; a float is   *)
(* the exact value s * m * 2^e with m of at most 53 significant bits.      *)

Limb == 2^15

RECURSIVE BTrim(_)
BTrim(a) ==
    IF a # <<>> /\ a[Len(a)] = 0 THEN BTrim(SubSeq(a, 1, Len(a) - 1)) ELSE a

RECURSIVE BNat(_)
BNat(n) == IF n = 0 THEN <<>> ELSE <<n % Limb>> \o BNat(n \div Limb)

RECURSIVE BInt(_)
BInt(a) == IF a = <<>> THEN 0 ELSE Head(a) + Limb * BInt(Tail(a))

RECURSIVE BAddC(_, _, _)
BAddC(a, b, c) ==
    IF a = <<>> /\ b = <<>> THEN (IF c = 0 THEN <<>> ELSE <<c>>)
    ELSE LET da == IF a = <<>> THEN 0 ELSE Head(a)
             db == IF b = <<>> THEN 0 ELSE Head(b)
             t == da + db + c
         IN  <<t % Limb>> \o BAddC(IF a = <<>> THEN a ELSE Tail(a),
                                   IF b = <<>> THEN b ELSE Tail(b),
                                   t \div Limb)

BAdd(a, b) == BAddC(a, b, 0)

\* a - b for a >= b
RECURSIVE BSubC(_, _, _)
BSubC(a, b, c) ==
    IF a = <<>> THEN <<>>
    ELSE LET db == IF b = <<>> THEN 0 ELSE Head(b)
             t == Head(a) - db - c
         IN  <<t % Limb>> \o BSubC(Tail(a),
                                   IF b = <<>> THEN b ELSE Tail(b),
                                   IF t < 0 THEN 1 ELSE 0)

BSub(a, b) == BTrim(BSubC(a, b, 0))

\* -1, 0, 1 as a < b, a = b, a > b
RECURSIVE BCmpFrom(_, _, _)
BCmpFrom(a, b, i) ==
    IF i = 0 THEN 0
    ELSE IF a[i] < b[i] THEN -1
    ELSE IF a[i] > b[i] THEN 1
    ELSE BCmpFrom(a, b, i - 1)

BCmp(a, b) ==
    IF Len(a) < Len(b) THEN -1
    ELSE IF Len(a) > Len(b) THEN 1
    ELSE BCmpFrom(a, b, Len(a))

\* a * k for 0 <= k <= 2^15
RECURSIVE BMulC(_, _, _)
BMulC(a, k, c) ==
    IF a = <<>> THEN BNat(c)
    ELSE LET t == Head(a) * k + c
         IN  <<t % Limb>> \o BMulC(Tail(a), k, t \div Limb)

BMulSmall(a, k) == BTrim(BMulC(a, k, 0))

\* <<a div k, a mod k>> for 0 < k <= 2^15
RECURSIVE BDivFrom(_, _, _, _)
BDivFrom(a, k, i, r) ==
    IF i = 0 THEN <<<<>>, r>>
    ELSE LET t == r * Limb + a[i]
             rest == BDivFrom(a, k, i - 1, t % k)
         IN  <<Append(rest[1], t \div k), rest[2]>>

BDivSmall(a, k) ==
    LET qr == BDivFrom(a, k, Len(a), 0)
    IN  <<BTrim(qr[1]), qr[2]>>

\* a * 2^n
BShl(a, n) ==
    IF a = <<>> THEN a
    ELSE BMulSmall([i \in 1..(n \div 15) |-> 0] \o a, 2^(n % 15))

\* a div 2^n
BShr(a, n) ==
    IF Len(a) <= n \div 15 THEN <<>>
    ELSE BDivSmall(SubSeq(a, (n \div 15) + 1, Len(a)), 2^(n % 15))[1]

RECURSIVE IntBits(_)
IntBits(n) == IF n = 0 THEN 0 ELSE 1 + IntBits(n \div 2)

BitLen(a) == IF a = <<>> THEN 0 ELSE 15 * (Len(a) - 1) + IntBits(a[Len(a)])

BOdd(a) == a # <<>> /\ Head(a) % 2 = 1

\* the float nearest to s * n * 2^e, ties to the even mantissa
FRound(s, n, e) ==
    IF BitLen(n) <= 53 THEN [s |-> s, m |-> n, e |-> e]
    ELSE LET sh == BitLen(n) - 53
             q == BShr(n, sh)
             r == BSub(n, BShl(q, sh))
             c == BCmp(r, BShl(<<1>>, sh - 1))
             up == c > 0 \/ (c = 0 /\ BOdd(q))
         IN  [s |-> s, m |-> IF up THEN BAdd(q, <<1>>) ELSE q, e |-> e + sh]

\* float(n) for an int of fewer than 31 bits
FInt(n) == [s |-> IF n < 0 THEN -1 ELSE 1, m |-> BNat(IF n < 0 THEN -n ELSE n),
            e |-> 0]

\* n / d for ints 0 <= n < 2^15, 0 < d < 2^15: the correctly rounded quotient
FDiv(n, d) ==
    LET qr == BDivSmall(BShl(BNat(n), 70), d)
        n2 == BAdd(BShl(qr[1], 1), IF qr[2] = 0 THEN <<>> ELSE <<1>>)
    IN  FRound(1, n2, -71)

\* k * f for an int |k| < 2^15
FMulInt(k, f) ==
    FRound(IF k < 0 THEN -f.s ELSE f.s,
           BMulSmall(f.m, IF k < 0 THEN -k ELSE k), f.e)

\* f + g
FAdd(f, g) ==
    LET e0 == IF f.e < g.e THEN f.e ELSE g.e
        a == BShl(f.m, f.e - e0)
        b == BShl(g.m, g.e - e0)
    IN  IF f.s = g.s THEN FRound(f.s, BAdd(a, b), e0)
        ELSE IF BCmp(a, b) >= 0 THEN FRound(f.s, BSub(a, b), e0)
        ELSE FRound(g.s, BSub(b, a), e0)

\* f / 2
FHalf(f) == [f EXCEPT !.e = @ - 1]

\* int(f): truncation toward zero
FTrunc(f) ==
    f.s * BInt(IF f.e >= 0 THEN BShl(f.m, f.e) ELSE BShr(f.m, -f.e))

\* f < 1
FLessOne(f) ==
    \/ f.m = <<>>
    \/ f.s < 0
    \/ f.e < 0 /\ BShr(f.m, -f.e) = <<>>

----------------------------------------------------------------------------
(* Images and Image.paste.                                                 *)

\* Image.new(mode, (w, h), color): every pixel is color
New(w, h, color) ==
    [w |-> w, h |-> h, px |-> [p \in (0..(w - 1)) \X (0..(h - 1)) |-> color]]

\* faulty variant of Blend8: the division truncates
Blend8_trunc(m, in1, in2) == (in1 * (255 - m) + in2 * m) \div 255

\* the 8-bit blend of Image.paste: (in1 * (255 - m) + in2 * m) / 255, the
\* division rounded by adding 128 and folding the high byte
Blend8(m, in1, in2) ==
    LET tmp == in1 * (255 - m) + in2 * m + 128
    IN  ((tmp \div 256) + tmp) \div 256

\* faulty variant of Composite: the weights are ignored
Composite_unmasked(dest, src, at, m) ==
    [dest EXCEPT !.px =
        [p \in DOMAIN dest.px |->
            LET q == <<p[1] - at[1], p[2] - at[2]>>
            IN  IF q \in DOMAIN src.px THEN src.px[q] ELSE dest.px[p]]]

\* the pixels of dest after pasting src at a position through the weights m,
\* a function on the pixels of src; the part of src outside dest is clipped
Composite(dest, src, at, m) ==
    [dest EXCEPT !.px =
        [p \in DOMAIN dest.px |->
            LET q == <<p[1] - at[1], p[2] - at[2]>>
            IN  IF q \in DOMAIN src.px
                THEN [c \in DOMAIN dest.px[p] |->
                         Blend8(m[q], dest.px[p][c], src.px[q][c])]
                ELSE dest.px[p]]]

\* faulty variant of SizesMatch: only the widths are compared
SizesMatch_width(a, b) == a.w = b.w

\* the size test of putband and paste ("images do not match")
SizesMatch(a, b) == a.w = b.w /\ a.h = b.h

\* dest.paste(src, origin, mask) with an 'L' mask (line 43): the sizes of
\* src and mask must agree, or ValueError is raised before any pixel is
\* written
PasteL(dest, src, at, msk) ==
    IF ~SizesMatch(src, msk)
    THEN [err |-> "ValueError", img |-> dest]
    ELSE [err |-> "none", img |-> Composite(dest, src, at, msk.px)]

\* im.putalpha(mask) (lines 107, 175, 205): the alpha band of an RGBA image
\* is replaced by the mask, of the same size
putalpha(im, msk) ==
    IF ~SizesMatch(im, msk)
    THEN [err |-> "ValueError", img |-> im]
    ELSE [err |-> "none",
          img |-> [im EXCEPT !.px =
                      [q \in DOMAIN im.px |-> [im.px[q] EXCEPT ![4] = msk.px[q]]]]]

\* dest.paste(src, origin, src) with an RGBA image as its own mask (lines
\* 108, 177, 207): the weights are its alpha band
PasteRGBA(dest, src, at, msk) ==
    IF ~SizesMatch(src, msk)
    THEN [err |-> "ValueError", img |-> dest]
    ELSE [err |-> "none",
          img |-> Composite(dest, src, at, [q \in DOMAIN msk.px |-> msk.px[q][4]])]

----------------------------------------------------------------------------
(* The gradient functions.                                                 *)

\* largest width and height tried
MaxDim == 3

\* the color tokens tried, all of them colors of the script (lines 15-17,
\* 124, 198, 288)
Palette ==
    { <<"#", "3", "a", "3", "a", "3", "a">>,
      <<"#", "2", "5", "2", "5", "2", "5">>,
      <<"#", "2", "4", "2", "4", "2", "4">>,
      <<"#", "6", "B", "3", "F", "A", "0">>,
      <<"#", "1", "A", "1", "A", "1", "A">>,
      <<"#", "0", "0", "0", "0", "0", "0">>,
      <<"#", "F", "F", "F", "F", "F", "F">> }

GradInit ==
    /\ pc \in {"vertical", "diagonal"}
    /\ width \in 1..MaxDim
    /\ height \in 1..MaxDim
    /\ color1 \in Palette
    /\ color2 \in Palette
    /\ base = <<>>
    /\ top = <<>>
    /\ mask = <<>>
    /\ mask_data = <<>>
    /\ img = <<>>
    /\ x = 0
    /\ y = 0
    /\ RunIdle
    /\ ColorIdle
    /\ PasteIdle

\* lines 36-39
VNew ==
    /\ pc = "vertical"
    /\ base' = New(width, height, hex_to_rgb(color1).val)
    /\ top' = New(width, height, hex_to_rgb(color2).val)
    /\ mask' = New(width, height, 0)
    /\ mask_data' = <<>>
    /\ y' = 0
    /\ pc' = "v_loop"
    /\ UNCHANGED <<width, height, color1, color2, img, x, nonGradVars>>

\* faulty variant of RowWeight: the rows are counted from 1
RowWeight_next(row, h) == FTrunc(FMulInt(255, FDiv(row + 1, h)))

\* int(255 * (y / height)) (line 41)
RowWeight(row, h) == FTrunc(FMulInt(255, FDiv(row, h)))

\* lines 40-41: one turn of the loop
VRow ==
    /\ pc = "v_loop"
    /\ y < height
    /\ mask_data' = mask_data \o [i \in 1..width |-> RowWeight(y, height)]
    /\ y' = y + 1
    /\ UNCHANGED <<pc, width, height, color1, color2, base, top, mask, img, x,
                   nonGradVars>>

\* line 42: mask.putdata(mask_data), row by row
VPutData ==
    /\ pc = "v_loop"
    /\ y = height
    /\ mask' = [mask EXCEPT !.px =
                   [p \in DOMAIN mask.px |-> mask_data[p[2] * width + p[1] + 1]]]
    /\ pc' = "v_paste"
    /\ UNCHANGED <<width, height, color1, color2, base, top, mask_data, img, x,
                   y, nonGradVars>>

\* lines 43-44
VPaste ==
    /\ pc = "v_paste"
    /\ base' = PasteL(base, top, <<0, 0>>, mask).img
    /\ pc' = "v_returned"
    /\ UNCHANGED <<width, height, color1, color2, top, mask, mask_data, img, x,
                   y, nonGradVars>>

\* lines 48-53
DNew ==
    /\ pc = "diagonal"
    /\ img' = New(width, height, hex_to_rgb(color1).val)
    /\ x' = 0
    /\ y' = 0
    /\ pc' = "d_loop"
    /\ UNCHANGED <<width, height, color1, color2, base, top, mask, mask_data,
                   nonGradVars>>

\* faulty variant of Blend: the sum of the two ratios is not halved
Blend_sum(px, py, w, h) == FAdd(FDiv(px, w), FDiv(py, h))

\* blend = ((x / width) + (y / height)) / 2 (line 56)
Blend(px, py, w, h) == FHalf(FAdd(FDiv(px, w), FDiv(py, h)))

\* int(c1[k] + (c2[k] - c1[k]) * blend) (lines 57-59)
Lerp(a, b, blend) == FTrunc(FAdd(FInt(a), FMulInt(b - a, blend)))

\* lines 54-60: one turn of the inner loop
DPixel ==
    /\ pc = "d_loop"
    /\ y < height
    /\ LET c1 == hex_to_rgb(color1).val
           c2 == hex_to_rgb(color2).val
           blend == Blend(x, y, width, height)
       IN  img' = [img EXCEPT !.px[<<x, y>>] =
                      [k \in 1..3 |-> Lerp(c1[k], c2[k], blend)]]
    /\ IF x + 1 < width
       THEN x' = x + 1 /\ y' = y
       ELSE x' = 0 /\ y' = y + 1
    /\ UNCHANGED <<pc, width, height, color1, color2, base, top, mask,
                   mask_data, nonGradVars>>

\* line 62
DReturn ==
    /\ pc = "d_loop"
    /\ y = height
    /\ pc' = "d_returned"
    /\ UNCHANGED <<gradVars, nonGradVars>>

GradNext ==
    \/ VNew
    \/ VRow
    \/ VPutData
    \/ VPaste
    \/ DNew
    \/ DPixel
    \/ DReturn

SpecGradient == GradInit /\ [][GradNext]_vars

----------------------------------------------------------------------------
(* Claims about the gradient functions.                                    *)

Abs(n) == IF n < 0 THEN -n ELSE n

Between(v, a, b) == (a <= v /\ v <= b) \/ (b <= v /\ v <= a)

Rgb1 == hex_to_rgb(color1).val

Rgb2 == hex_to_rgb(color2).val

Grid == (0..(width - 1)) \X (0..(height - 1))

\* the parts of C6 that its stated and its amended form share: row 0 is
\* color1, every channel is monotonic in the row and stays between the
\* channels of color1 and color2
VerticalShape ==
    /\ DOMAIN base.px = Grid
    /\ \A col \in 0..(width - 1) : base.px[<<col, 0>>] = Rgb1
    /\ \A p \in Grid : \A k \in 1..3 :
          /\ Between(base.px[p][k], Rgb1[k], Rgb2[k])
          /\ \A q \in Grid :
                p[2] <= q[2] =>
                    Between(base.px[p][k], Rgb1[k], base.px[q][k])

\* distance of a pixel to color2, summed over the channels
Dist2(pixel) ==
    Abs(pixel[1] - Rgb2[1]) + Abs(pixel[2] - Rgb2[2]) + Abs(pixel[3] - Rgb2[3])

\* C6 as stated, for two different colors: for every height H >= 1, row 0 is
\* color1, the pixel of row H-1 is strictly closer to color2 than row 0 is,
\* the channels are monotonic in the row and never leave the interval of the
\* two colors.
C6_AsStated ==
    (pc = "v_returned" /\ Rgb1 # Rgb2) =>
        /\ VerticalShape
        /\ Dist2(base.px[<<0, height - 1>>]) < Dist2(base.px[<<0, 0>>])

\* C6 (amended): row 0 is color1, the channels are monotonic in the row and
\* never leave the interval of the two colors; the pixel of row H-1 is never
\* farther from color2 than row 0 is, and it is strictly closer in every
\* channel in which the colors differ when H >= 3, and in every channel in
\* which they differ by 2 or more when H = 2.
C6_VerticalEndpoints ==
    pc = "v_returned" =>
        /\ VerticalShape
        /\ \A k \in 1..3 :
              LET last == base.px[<<0, height - 1>>][k]
                  d == Abs(Rgb1[k] - Rgb2[k])
              IN  /\ Abs(last - Rgb2[k]) <= d
                  /\ (height >= 3 /\ d >= 1) => Abs(last - Rgb2[k]) < d
                  /\ (height = 2 /\ d >= 2) => Abs(last - Rgb2[k]) < d

C6_Witness ==
    /\ pc = "v_returned"
    /\ height = 3
    /\ color1 = <<"#", "2", "4", "2", "4", "2", "4">>
    /\ color2 = <<"#", "2", "5", "2", "5", "2", "5">>
    /\ base.px[<<0, 0>>] = <<36, 36, 36>>
    /\ base.px[<<0, 2>>] = <<37, 37, 37>>

\* all pixels of a row have the color of its first pixel
RowsUniform ==
    /\ DOMAIN base.px = Grid
    /\ \A p \in Grid : base.px[p] = base.px[<<0, p[2]>>]

\* C7 as stated: every row is of one color, whose channels are
\* color1.channel + (color2.channel - color1.channel) * (y / height) with the
\* fraction discarded, and y / height is never 1.
C7_AsStated ==
    pc = "v_returned" =>
        /\ RowsUniform
        /\ \A row \in 0..(height - 1) :
              /\ FLessOne(FDiv(row, height))
              /\ \A k \in 1..3 :
                    base.px[<<0, row>>][k] =
                        FTrunc(FAdd(FInt(Rgb1[k]),
                                    FMulInt(Rgb2[k] - Rgb1[k],
                                            FDiv(row, height))))

\* C7 (amended): every row is of one color, whose channels are
\* (color1.channel * (255 - m) + color2.channel * m) / 255 rounded to the
\* nearest integer, for the 8-bit weight m = 255 * y / height with the
\* fraction discarded; y / height is never 1 and m never exceeds 254.
C7_VerticalRows ==
    pc = "v_returned" =>
        /\ RowsUniform
        /\ \A row \in 0..(height - 1) :
              /\ FLessOne(FDiv(row, height))
              /\ \E m \in 0..254 :
                    /\ m * height <= 255 * row
                    /\ 255 * row < (m + 1) * height
                    /\ \A k \in 1..3 :
                          2 * Abs(255 * base.px[<<0, row>>][k]
                                  - (Rgb1[k] * (255 - m) + Rgb2[k] * m)) < 255

C7_Witness ==
    /\ pc = "v_returned"
    /\ height = 2
    /\ color1 = <<"#", "F", "F", "F", "F", "F", "F">>
    /\ color2 = <<"#", "0", "0", "0", "0", "0", "0">>
    /\ base.px[<<0, 1>>] = <<128, 128, 128>>

\* C8: each pixel (x, y) of the diagonal gradient has the channels
\* color1.channel + (color2.channel - color1.channel) * t truncated, with
\* t = ((x / W) + (y / H)) / 2 as the floating-point arithmetic of the code
\* evaluates it; t is in [0, 1) and never 1, pixel (0, 0) is color1, and
\* every channel is in 0..255, between the channels of the two colors, and
\* within one of the exact value of the formula.
C8_DiagonalFormula ==
    pc = "d_returned" =>
        /\ DOMAIN img.px = Grid
        /\ img.px[<<0, 0>>] = Rgb1
        /\ \A p \in Grid :
              LET t == FHalf(FAdd(FDiv(p[1], width), FDiv(p[2], height)))
                  den == 2 * width * height
                  part == p[1] * height + p[2] * width
              IN  /\ t.s = 1
                  /\ FLessOne(t)
                  /\ 0 <= part /\ part < den
                  /\ \A k \in 1..3 :
                        LET v == img.px[p][k]
                            num == Rgb1[k] * den + (Rgb2[k] - Rgb1[k]) * part
                        IN  /\ v = FTrunc(FAdd(FInt(Rgb1[k]),
                                               FMulInt(Rgb2[k] - Rgb1[k], t)))
                            /\ v \in 0..255
                            /\ Between(v, Rgb1[k], Rgb2[k])
                            /\ v * den <= num
                            /\ num <= (v + 1) * den

C8_Witness ==
    /\ pc = "d_returned"
    /\ width = 2
    /\ height = 3
    /\ color1 = <<"#", "0", "0", "0", "0", "0", "0">>
    /\ color2 = <<"#", "2", "4", "2", "4", "2", "4">>
    /\ img.px[<<1, 1>>] = <<14, 14, 14>>

----------------------------------------------------------------------------
(* The mask composite of generate_app_mockup (lines 97-108) and of         *)
(* create_gradient_vertical (line 43).                                     *)

\* largest width and height of canvas and overlay tried
MaxSide == 2

\* the mask images tried: untouched (all 0), filled (all 255), and two with
\* both and with intermediate values
MaskKinds == {"zero", "full", "checker", "cycle"}

MaskOf(kind, w, h) ==
    [w |-> w, h |-> h,
     px |-> [q \in (0..(w - 1)) \X (0..(h - 1)) |->
                CASE kind = "zero" -> 0
                  [] kind = "full" -> 255
                  [] kind = "checker" -> IF (q[1] + q[2]) % 2 = 0 THEN 255 ELSE 0
                  [] kind = "cycle" -> <<0, 128, 255>>[((q[1] + q[2]) % 3) + 1]]]

\* a canvas with something drawn on it: opaque and transparent pixels
CanvasOf(w, h, bands) ==
    [w |-> w, h |-> h,
     px |-> [p \in (0..(w - 1)) \X (0..(h - 1)) |->
                SubSeq(<<8 + p[1], 8 + p[2], 8,
                         IF (p[1] + p[2]) % 2 = 0 THEN 255 ELSE 0>>, 1, bands)]]

\* an overlay whose pixels all differ; opaque as convert('RGBA') leaves it
OverlayOf(w, h, bands) ==
    [w |-> w, h |-> h,
     px |-> [q \in (0..(w - 1)) \X (0..(h - 1)) |->
                SubSeq(<<107 - 20 * q[1], 63 - 20 * q[2], 160, 255>>, 1, bands)]]

\* how far the size of the mask may be off the size of the overlay
SizeSlips == {<<0, 0>>, <<1, 0>>, <<0, 1>>}

PasteInit ==
    /\ pc \in {"putalpha", "paste_l"}
    /\ \E cw \in 1..MaxSide, ch \in 1..MaxSide, ow \in 1..MaxSide,
          oh \in 1..MaxSide, slip \in SizeSlips, kind \in MaskKinds :
          LET bands == IF pc = "putalpha" THEN 4 ELSE 3
          IN  /\ img = CanvasOf(cw, ch, bands)
              /\ overlay = OverlayOf(ow, oh, bands)
              /\ mask = MaskOf(kind, ow + slip[1], oh + slip[2])
    /\ origin \in (-1..(MaxSide - 1)) \X (-1..(MaxSide - 1))
    /\ before = img
    /\ dirs = {OutDir}
    /\ creatable = FALSE
    /\ files = {}
    /\ out = <<>>
    /\ attempts = <<>>
    /\ raised = "none"
    /\ handled = FALSE
    /\ idx = 0
    /\ width = 0
    /\ height = 0
    /\ color1 = <<>>
    /\ color2 = <<>>
    /\ base = <<>>
    /\ top = <<>>
    /\ mask_data = <<>>
    /\ x = 0
    /\ y = 0
    /\ ColorIdle

pasteFrame ==
    <<dirs, creatable, out, attempts, handled, idx, width, height, color1,
      color2, base, top, mask, mask_data, x, y, origin, before, colorVars>>

\* line 107: screen_bg.putalpha(mask)
PutAlpha ==
    /\ pc = "putalpha"
    /\ putalpha(overlay, mask).err = "none"
    /\ overlay' = putalpha(overlay, mask).img
    /\ pc' = "paste"
    /\ UNCHANGED <<img, raised, files, pasteFrame>>

\* line 107 raises: the exception leaves generate_app_mockup
PutAlphaFail ==
    /\ pc = "putalpha"
    /\ putalpha(overlay, mask).err # "none"
    /\ raised' = putalpha(overlay, mask).err
    /\ pc' = "aborted"
    /\ UNCHANGED <<img, overlay, files, pasteFrame>>

\* line 108: img.paste(screen_bg, (screen_x1, screen_y1), screen_bg)
PasteAlpha ==
    /\ pc = "paste"
    /\ img' = PasteRGBA(img, overlay, origin, overlay).img
    /\ pc' = "pasted"
    /\ UNCHANGED <<overlay, raised, files, pasteFrame>>

\* line 43: base.paste(top, (0, 0), mask), at any position
PasteMask ==
    /\ pc = "paste_l"
    /\ PasteL(img, overlay, origin, mask).err = "none"
    /\ img' = PasteL(img, overlay, origin, mask).img
    /\ pc' = "pasted"
    /\ UNCHANGED <<overlay, raised, files, pasteFrame>>

\* line 43 raises
PasteMaskFail ==
    /\ pc = "paste_l"
    /\ PasteL(img, overlay, origin, mask).err # "none"
    /\ raised' = PasteL(img, overlay, origin, mask).err
    /\ img' = PasteL(img, overlay, origin, mask).img
    /\ pc' = "aborted"
    /\ UNCHANGED <<overlay, files, pasteFrame>>

\* lines 110-349: the rest of the asset's generation, down to its file
FinishAsset ==
    /\ pc = "pasted"
    /\ files' = files \cup {MockupPath}
    /\ pc' = "saved"
    /\ UNCHANGED <<img, overlay, raised, pasteFrame>>

PasteNext ==
    \/ PutAlpha
    \/ PutAlphaFail
    \/ PasteAlpha
    \/ PasteMask
    \/ PasteMaskFail
    \/ FinishAsset

SpecPaste == PasteInit /\ [][PasteNext]_vars

----------------------------------------------------------------------------
(* Claims about the mask composite.                                        *)

\* the pixel of the overlay that lands on pixel p of the canvas
Source(p) == <<p[1] - origin[1], p[2] - origin[2]>>

\* C9: after an overlay is pasted through a mask of its size, every canvas
\* pixel under a mask value of 255 is the overlay pixel, every canvas pixel
\* under a mask value of 0 is as before, and so is every canvas pixel
\* outside the pasted region; the canvas keeps its size.
C9_MaskedPaste ==
    pc \in {"pasted", "saved"} =>
        /\ img.w = before.w /\ img.h = before.h
        /\ DOMAIN img.px = DOMAIN before.px
        /\ DOMAIN mask.px = DOMAIN overlay.px
        /\ \A p \in DOMAIN before.px :
              IF Source(p) \in DOMAIN overlay.px
              THEN /\ mask.px[Source(p)] = 255 =>
                          img.px[p] = overlay.px[Source(p)]
                   /\ mask.px[Source(p)] = 0 => img.px[p] = before.px[p]
              ELSE img.px[p] = before.px[p]

C9_Witness ==
    /\ pc = "pasted"
    /\ \E p \in DOMAIN img.px :
          /\ Source(p) \in DOMAIN overlay.px
          /\ mask.px[Source(p)] = 255
          /\ img.px[p] = overlay.px[Source(p)]
          /\ img.px[p] # before.px[p]
    /\ \E p \in DOMAIN img.px :
          /\ Source(p) \in DOMAIN overlay.px
          /\ mask.px[Source(p)] = 0
    /\ \E p \in DOMAIN img.px : Source(p) \notin DOMAIN overlay.px
    /\ \E q \in DOMAIN overlay.px :
          <<q[1] + origin[1], q[2] + origin[2]>> \notin DOMAIN img.px

MaskFits == mask.w = overlay.w /\ mask.h = overlay.h

\* C10: when overlay and mask differ in size the composite raises
\* ValueError ("images do not match"), the canvas and the overlay are left
\* as they were (nothing is resized or partly pasted), and the generation of
\* the asset stops there: its file is not written.
C10_MismatchRejected ==
    /\ (pc \notin {"putalpha", "paste_l"} /\ ~MaskFits) =>
          /\ pc = "aborted"
          /\ raised = "ValueError"
          /\ img = before
          /\ overlay = OverlayOf(overlay.w, overlay.h, Len(overlay.px[<<0, 0>>]))
          /\ files = {}
    /\ pc = "aborted" => ~MaskFits

C10_Witness ==
    /\ pc = "aborted"
    /\ raised = "ValueError"
    /\ mask.w = overlay.w
    /\ mask.h = overlay.h + 1
    /\ img = before

=============================================================================
